---- MODULE Spec2Model ----
(***************************************************************************)
(* promql-langserver: configuration loading and runtime reconfiguration    *)
(* (langserver/config.go), the completion engine (langserver/completion.go)*)
(* and the stateless HTTP adapter (rest/stateless API handler).            *)
(*                                                                         *)
(* Strings that the code parses or compares are sequences of characters    *)
(* (one-character strings, or ASCII codes where the code orders them).     *)
(* Durations are counted in milliseconds, the unit model.ParseDuration     *)
(* accumulates in.                                                         *)
(***************************************************************************)
EXTENDS Integers, Sequences, FiniteSets, TLC

VARIABLES
    config,          \* the server's Config (s.config / the loaded *Config)
    phase,           \* "unloaded", "loaded", "failed": outcome of ReadConfig
    loadInput,       \* which source ReadConfig read and the interval it carried
    lastNote,        \* the last DidChangeConfiguration: its params and effects
    requestCounter,  \* langserverHandler.requestCounter
    req,             \* the ServeHTTP calls, by arrival order
    openDocs         \* URIs of the documents open in the document cache

vars == <<config, phase, loadInput, lastNote, requestCounter, req, openDocs>>

configVars == <<config, phase, loadInput, lastNote>>
httpVars == <<requestCounter, req, openDocs>>

----------------------------------------------------------------------------
(* Characters and numbers                                                  *)

DigitChars == <<"0", "1", "2", "3", "4", "5", "6", "7", "8", "9">>

IsDigit(c) == \E i \in 1..10 : DigitChars[i] = c

DigitVal(c) == (CHOOSE i \in 1..10 : DigitChars[i] = c) - 1

\* value of the decimal digits s[i..j-1]
RECURSIVE Atoi(_, _, _)
Atoi(s, i, j) ==
    IF j <= i THEN 0 ELSE Atoi(s, i, j - 1) * 10 + DigitVal(s[j - 1])

\* first index >= i of s that holds no digit (Len(s)+1 when the digits run to the end)
DigitRunEnd(s, i) ==
    CHOOSE k \in i..(Len(s) + 1) :
        /\ k = Len(s) + 1 \/ ~IsDigit(s[k])
        /\ \A l \in i..(k - 1) : IsDigit(s[l])

\* strconv.ParseUint(s, 10, 64): value 0 comes with every syntax error
ParseUint(s) ==
    IF s # <<>> /\ \A i \in 1..Len(s) : IsDigit(s[i])
    THEN [err |-> FALSE, val |-> Atoi(s, 1, Len(s) + 1)]
    ELSE [err |-> TRUE, val |-> 0]

\* the units of model.ParseDuration in the order its regular expression allows
\* (the year, 365d, comes first there; its milliseconds do not fit 32-bit
\* integers and no input below uses it)
UnitNames == <<"w", "d", "h", "m", "s", "ms">>

UnitMillis == <<7 * 24 * 3600 * 1000, 24 * 3600 * 1000, 3600 * 1000, 60 * 1000, 1000, 1>>

IsUnit(u) == \E i \in 1..Len(UnitNames) : UnitNames[i] = u

UnitRank(u) == CHOOSE i \in 1..Len(UnitNames) : UnitNames[i] = u

DurationError == [err |-> TRUE, val |-> 0]

\* one "<digits><unit>" group after another, units strictly in regex order
RECURSIVE ParseGroups(_, _, _, _)
ParseGroups(s, i, lastRank, acc) ==
    IF i > Len(s) THEN [err |-> FALSE, val |-> acc]
    ELSE LET j == DigitRunEnd(s, i)
         IN IF j = i \/ j > Len(s) THEN DurationError
            ELSE LET u == IF s[j] = "m" /\ j + 1 <= Len(s) /\ s[j + 1] = "s"
                          THEN "ms" ELSE s[j]
                     next == IF u = "ms" THEN j + 2 ELSE j + 1
                 IN IF ~IsUnit(u) THEN DurationError
                    ELSE IF UnitRank(u) <= lastRank THEN DurationError
                    ELSE ParseGroups(s, next, UnitRank(u),
                                     acc + Atoi(s, i, j) * UnitMillis[UnitRank(u)])

\* model.ParseDuration: "0" is zero, "" is an error, otherwise the groups
ParseDuration(s) ==
    IF s = <<"0">> THEN [err |-> FALSE, val |-> 0]
    ELSE IF s = <<>> THEN DurationError
    ELSE ParseGroups(s, 1, 0, 0)

----------------------------------------------------------------------------
(* Configuration: langserver/config.go                                     *)

\* defaultInterval = 12 * 3600 * time.Second, in milliseconds
defaultInterval == 12 * 3600 * 1000

JSONFormat == "json"
TextFormat == "text"

mapLogFormat == {JSONFormat, TextFormat}

\* an option the YAML file does not mention
NoValue == <<"<absent>">>

\* url.Parse reports "missing protocol scheme" for a string that starts with ':'
\* (the one failure of url.Parse the inputs below can cause)
UrlParses(u) == u = <<>> \/ u[1] # ":"

\* &Config{}: the zero value
ZeroConfig ==
    [RPCTrace |-> "", LogFormat |-> "", PrometheusURL |-> <<>>,
     RESTAPIPort |-> 0, MetadataLookbackInterval |-> 0]

\* Config.Validate when a non-positive interval is kept as it is
ValidateKeepsInterval(c) ==
    IF c.PrometheusURL # <<>> /\ ~UrlParses(c.PrometheusURL)
    THEN [err |-> TRUE, c |-> c]
    ELSE IF c.LogFormat # "" /\ c.LogFormat \notin mapLogFormat
    THEN [err |-> TRUE, c |-> c]
    ELSE [err |-> FALSE,
          c |-> [c EXCEPT !.LogFormat = IF c.LogFormat # "" THEN @ ELSE TextFormat]]

\* Config.Validate: the error it returns and the config it leaves behind
Validate(c) ==
    IF c.PrometheusURL # <<>> /\ ~UrlParses(c.PrometheusURL)
    THEN [err |-> TRUE, c |-> c]
    ELSE IF c.LogFormat # "" /\ c.LogFormat \notin mapLogFormat
    THEN [err |-> TRUE, c |-> c]
    ELSE LET c1 == [c EXCEPT !.LogFormat = IF c.LogFormat # "" THEN @ ELSE TextFormat]
             c2 == [c1 EXCEPT !.MetadataLookbackInterval =
                                  IF @ <= 0 THEN defaultInterval ELSE @]
         IN [err |-> FALSE, c |-> c2]

\* unmarshal of the plain Config: the YAML decoder fills the fields the file names;
\* rest_api_port is decoded as an unsigned number and metadataLookbackInterval
\* through model.Duration's own UnmarshalYAML, that is ParseDuration
DecodePlain(y) ==
    LET port == IF y.rest_api_port = NoValue
                THEN [err |-> FALSE, val |-> 0] ELSE ParseUint(y.rest_api_port)
        ival == IF y.metadataLookbackInterval = NoValue
                THEN [err |-> FALSE, val |-> 0]
                ELSE ParseDuration(y.metadataLookbackInterval)
    IN [err |-> port.err \/ ival.err,
        c |-> [RPCTrace |-> y.rpc_trace,
               LogFormat |-> y.log_format,
               PrometheusURL |-> y.prometheus_url,
               RESTAPIPort |-> port.val,
               MetadataLookbackInterval |-> ival.val]]

\* Config.UnmarshalYAML: c is replaced only when decoding and Validate succeed
UnmarshalYAML(c, y) ==
    LET tmp == DecodePlain(y)
    IN IF tmp.err THEN [err |-> TRUE, c |-> c]
       ELSE LET v == Validate(tmp.c)
            IN IF v.err THEN [err |-> TRUE, c |-> c]
               ELSE [err |-> FALSE, c |-> v.c]

\* Config.unmarshalENV: conf holds the LANGSERVER_* variables ("" when unset)
unmarshalENV(c, conf) ==
    LET port == ParseUint(conf.RESTAPIPort)
        c1 == IF Len(conf.RESTAPIPort) > 0
              THEN [c EXCEPT !.RESTAPIPort = port.val] ELSE c
        ival == ParseDuration(conf.MetadataLookbackInterval)
        c2 == IF Len(conf.MetadataLookbackInterval) > 0
              THEN [c1 EXCEPT !.MetadataLookbackInterval = ival.val] ELSE c1
        c3 == [c2 EXCEPT !.RPCTrace = conf.RPCTrace,
                         !.PrometheusURL = conf.PrometheusURL,
                         !.LogFormat = conf.LogFormat]
    IN IF Len(conf.RESTAPIPort) > 0 /\ port.err THEN [err |-> TRUE, c |-> c1]
       ELSE IF Len(conf.MetadataLookbackInterval) > 0 /\ ival.err
       THEN [err |-> TRUE, c |-> c2]
       ELSE Validate(c3)

\* connectPrometheus: metadataService.ChangeDataSource(url) is called; when it
\* fails (failed: the metadata service's answer) the error is shown and returned
connectPrometheus(url, failed) ==
    [err |-> failed,
     cds |-> <<url>>,
     shown |-> IF failed THEN <<"Error">> ELSE <<>>]

\* setURLFromChangeConfiguration
setURLFromChangeConfiguration(settings, failed) ==
    IF settings.url # NoValue
    THEN IF ~UrlParses(settings.url)
         THEN [err |-> TRUE, cds |-> <<>>, shown |-> <<>>]
         ELSE connectPrometheus(settings.url, failed)
    ELSE [err |-> FALSE, cds |-> <<>>, shown |-> <<>>]

\* setMetadataLookbackIntervalFromChangeConfiguration
setMetadataLookbackIntervalFromChangeConfiguration(c, settings) ==
    IF settings.metadataLookbackInterval # NoValue
    THEN LET d == ParseDuration(settings.metadataLookbackInterval)
         IN IF d.err THEN [err |-> TRUE, c |-> c]
            ELSE [err |-> FALSE, c |-> [c EXCEPT !.MetadataLookbackInterval = d.val]]
    ELSE [err |-> FALSE, c |-> c]

\* what one notification did: the error returned, the types of the messages
\* logged and shown, the URLs handed to ChangeDataSource, the config afterwards
Outcome(ret, logs, shown, cds, c) ==
    [ret |-> ret, logs |-> logs, shown |-> shown, cds |-> cds, c |-> c]

\* DidChangeConfiguration that gives up at the first setting that fails
DidChangeConfigurationFailFast(c, params, failed) ==
    IF params.kind = "nil" THEN Outcome("nil", <<>>, <<>>, <<>>, c)
    ELSE IF params.kind = "badformat" THEN Outcome("nil", <<"Info", "Error">>, <<>>, <<>>, c)
    ELSE IF params.kind = "nokey" THEN Outcome("nil", <<"Info", "Error">>, <<>>, <<>>, c)
    ELSE LET u == setURLFromChangeConfiguration(params.settings, failed)
             i == setMetadataLookbackIntervalFromChangeConfiguration(c, params.settings)
         IN IF u.err THEN Outcome("err", <<"Info">>, u.shown, u.cds, c)
            ELSE Outcome(IF i.err THEN "err" ELSE "nil", <<"Info">>, u.shown, u.cds, i.c)

\* server.DidChangeConfiguration
DidChangeConfiguration(c, params, failed) ==
    IF params.kind = "nil" THEN Outcome("nil", <<>>, <<>>, <<>>, c)
    ELSE IF params.kind = "badformat" THEN Outcome("nil", <<"Info", "Error">>, <<>>, <<>>, c)
    ELSE IF params.kind = "nokey" THEN Outcome("nil", <<"Info", "Error">>, <<>>, <<>>, c)
    ELSE LET u == setURLFromChangeConfiguration(params.settings, failed)
             i == setMetadataLookbackIntervalFromChangeConfiguration(c, params.settings)
             logs == <<"Info">> \o (IF u.err THEN <<"Info">> ELSE <<>>)
                                \o (IF i.err THEN <<"Info">> ELSE <<>>)
         IN Outcome("nil", logs, u.shown, u.cds, i.c)

----------------------------------------------------------------------------
(* Inputs of the configuration model                                       *)

PromA == <<"h", "t", "t", "p", ":", "/", "/", "a">>
PromB == <<"h", "t", "t", "p", ":", "/", "/", "b">>
BadURL == <<":", "9", "0", "9", "0">>

LoadDurations ==
    { <<"0">>, <<"0", "s">>, <<"1", "h">>, <<"1", "2", "h">>, <<"1", "d">>,
      <<"1", "h", "3", "0", "m">>, <<"5", "m", "s">>, <<"-", "1", "h">>,
      <<"9", "0">>, <<"1", "m", "1", "h">> }

NoteDurations ==
    { <<"0">>, <<"0", "0", "m">>, <<"3", "0", "m">>, <<"2", "d">>, <<"-", "2", "d">>,
      <<"s">> }

PortStrings == { <<"8", "0", "8", "0">>, <<"h", "t", "t", "p">> }

LogFormatStrings == {"", "json", "text", "xml"}

YAMLFiles ==
    [rpc_trace : {""},
     log_format : LogFormatStrings,
     prometheus_url : {<<>>, PromA, BadURL},
     rest_api_port : PortStrings \cup {NoValue},
     metadataLookbackInterval : LoadDurations \cup {<<>>, NoValue}]

Environments ==
    [RPCTrace : {""},
     LogFormat : LogFormatStrings,
     PrometheusURL : {<<>>, PromA, BadURL},
     RESTAPIPort : PortStrings \cup {<<>>},
     MetadataLookbackInterval : LoadDurations \cup {<<>>}]

Notifications ==
    [kind : {"nil", "badformat", "nokey"},
     settings : {[url |-> NoValue, metadataLookbackInterval |-> NoValue]}]
    \cup
    [kind : {"ok"},
     settings : [url : {NoValue, PromB, BadURL},
                 metadataLookbackInterval : NoteDurations \cup {NoValue}]]

NoNote == [seen |-> FALSE]

----------------------------------------------------------------------------
(* Actions of the configuration model                                      *)

ConfigInit ==
    /\ config = ZeroConfig
    /\ phase = "unloaded"
    /\ loadInput = [source |-> "none", interval |-> NoValue]
    /\ lastNote = NoNote

\* ReadConfig with a config file: readConfigFromYAML. The file cannot be read, or
\* yaml.Unmarshal hands its document to UnmarshalYAML of a new Config
readConfigFromYAML ==
    /\ phase = "unloaded"
    /\ \/ /\ config' = ZeroConfig
          /\ phase' = "failed"
          /\ loadInput' = [source |-> "yaml", interval |-> NoValue]
       \/ \E y \in YAMLFiles :
             LET r == UnmarshalYAML(ZeroConfig, y)
             IN /\ config' = r.c
                /\ phase' = IF r.err THEN "failed" ELSE "loaded"
                /\ loadInput' = [source |-> "yaml", interval |-> y.metadataLookbackInterval]
    /\ UNCHANGED <<lastNote, httpVars>>

\* ReadConfig without a config file: readConfigFromENV
readConfigFromENV ==
    /\ phase = "unloaded"
    /\ \E e \in Environments :
          LET r == unmarshalENV(ZeroConfig, e)
          IN /\ config' = r.c
             /\ phase' = IF r.err THEN "failed" ELSE "loaded"
             /\ loadInput' = [source |-> "env", interval |-> e.MetadataLookbackInterval]
    /\ UNCHANGED <<lastNote, httpVars>>

\* a workspace/didChangeConfiguration notification reaches the running server
NotifyConfiguration ==
    /\ phase = "loaded"
    /\ \E params \in Notifications, failed \in BOOLEAN :
          LET o == DidChangeConfiguration(config, params, failed)
          IN /\ config' = o.c
             /\ lastNote' = [seen |-> TRUE, params |-> params, failed |-> failed,
                             ret |-> o.ret, logs |-> o.logs, shown |-> o.shown,
                             cds |-> o.cds]
    /\ UNCHANGED <<phase, loadInput, httpVars>>

----------------------------------------------------------------------------
(* Completion: langserver/completion.go                                    *)
(* Names are sequences of ASCII codes, compared byte by byte as Go does.   *)

RECURSIVE LexLess(_, _)
LexLess(a, b) ==
    IF b = <<>> THEN FALSE
    ELSE IF a = <<>> THEN TRUE
    ELSE IF Head(a) < Head(b) THEN TRUE
    ELSE IF Head(a) > Head(b) THEN FALSE
    ELSE LexLess(Tail(a), Tail(b))

\* strings.ToLower on ASCII
ToLower(s) == [i \in 1..Len(s) |-> IF s[i] >= 65 /\ s[i] <= 90 THEN s[i] + 32 ELSE s[i]]

\* strings.HasPrefix
HasPrefix(s, prefix) == Len(prefix) <= Len(s) /\ SubSeq(s, 1, Len(prefix)) = prefix

Str_abs == <<97, 98, 115>>
Str_rate == <<114, 97, 116, 101>>
Str_round == <<114, 111, 117, 110, 100>>
Str_a == <<97>>
Str_r == <<114>>
Str_r2 == <<114, 50>>
Str_up == <<117, 112>>

\* keys of promql.Functions (three of them)
Functions == {Str_abs, Str_rate, Str_round}

\* metric names the Prometheus server may know
MetricNames == {Str_abs, Str_r2, Str_up}

Nil == [nil |-> TRUE]

Node(kind, pos, end, name, depth) ==
    [kind |-> kind, pos |-> pos, end |-> end, name |-> name, depth |-> depth]

\* the documents: text length and the nodes of the parsed query
Exprs == {"up", "a+r", "r[5m]", "1"}

TextLen(expr) ==
    CASE expr = "up" -> 2
      [] expr = "a+r" -> 3
      [] expr = "r[5m]" -> 5
      [] expr = "1" -> 1

Ast(expr) ==
    CASE expr = "up" -> { Node("VectorSelector", 0, 2, Str_up, 0) }
      [] expr = "a+r" -> { Node("BinaryExpr", 0, 3, <<>>, 0),
                           Node("VectorSelector", 0, 1, Str_a, 1),
                           Node("VectorSelector", 2, 3, Str_r, 1) }
      [] expr = "r[5m]" -> { Node("MatrixSelector", 0, 5, Str_r, 0) }
      [] expr = "1" -> { Node("NumberLiteral", 0, 1, <<>>, 0) }

\* doc.ProtocolPositionToTokenPos on a one-line text: OutOfRange past the text
ProtocolPositionToTokenPos(expr, position) ==
    IF position.Line # 0 \/ position.Character > TextLen(expr)
    THEN [err |-> TRUE, pos |-> 0]
    ELSE [err |-> FALSE, pos |-> position.Character]

\* doc.GetQuery: the compiled query that covers pos
GetQuery(expr, pos) ==
    IF pos < 0 \/ pos > TextLen(expr) THEN [err |-> TRUE] ELSE [err |-> FALSE]

\* getSmallestSurroundingNode: the innermost node whose range contains pos
getSmallestSurroundingNode(ast, pos) ==
    LET around == {n \in ast : n.pos <= pos /\ pos < n.end}
    IN IF around = {} THEN Nil
       ELSE CHOOSE n \in around : \A m \in around : m.depth <= n.depth

\* doc.PosToProtocolPosition on a one-line text
PosToProtocolPosition(pos) == [Line |-> 0, Character |-> pos]

Prefix1 == <<95, 95, 49, 95, 95>>
Prefix3 == <<95, 95, 51, 95, 95>>
SnippetSuffix == <<40, 36, 49, 41>>

\* a function candidate sorted among the metric names
FunctionItemAsValue(name, editRange) ==
    [Label |-> name, SortText |-> Prefix3 \o name, Kind |-> 3, InsertTextFormat |-> 2,
     Range |-> editRange, NewText |-> name \o SnippetSuffix]

\* the CompletionItem built for a function name
FunctionItem(name, editRange) ==
    [Label |-> name, SortText |-> Prefix1 \o name, Kind |-> 3, InsertTextFormat |-> 2,
     Range |-> editRange, NewText |-> name \o SnippetSuffix]

\* the CompletionItem built for a metric name
ValueItem(name, editRange) ==
    [Label |-> name, SortText |-> Prefix3 \o name, Kind |-> 12, InsertTextFormat |-> 0,
     Range |-> editRange, NewText |-> name]

\* items appended while ranging over promql.Functions in the order `order`
RECURSIVE FunctionItems(_, _, _)
FunctionItems(order, metricName, editRange) ==
    IF order = <<>> THEN <<>>
    ELSE (IF HasPrefix(ToLower(Head(order)), metricName)
          THEN <<FunctionItem(Head(order), editRange)>> ELSE <<>>)
         \o FunctionItems(Tail(order), metricName, editRange)

\* items appended while ranging over allNames
RECURSIVE ValueItems(_, _, _)
ValueItems(allNames, metricName, editRange) ==
    IF allNames = <<>> THEN <<>>
    ELSE (IF HasPrefix(Head(allNames), metricName)
          THEN <<ValueItem(Head(allNames), editRange)>> ELSE <<>>)
         \o ValueItems(Tail(allNames), metricName, editRange)

\* server.getCompletions; fetched: api.LabelValues(ctx, "__name__") answered
getCompletions(node, env, fetched) ==
    IF node.kind \notin {"VectorSelector", "MatrixSelector"}
    THEN [err |-> FALSE, list |-> Nil]
    ELSE IF ~env.prometheus THEN [err |-> FALSE, list |-> Nil]
    ELSE IF ~fetched THEN [err |-> TRUE, list |-> Nil]
    ELSE LET metricName == node.name
             editRange == [Start |-> PosToProtocolPosition(node.pos),
                           End |-> PosToProtocolPosition(node.pos + Len(metricName))]
         IN [err |-> FALSE,
             list |-> [nil |-> FALSE, IsIncomplete |-> TRUE,
                       Items |-> FunctionItems(env.funcOrder, metricName, editRange)
                                 \o ValueItems(env.allNames, metricName, editRange)]]

\* Completion that asks for the node at the cursor before the one at cursor - 1
CompletionCursorFirst(expr, position, env) ==
    LET p == ProtocolPositionToTokenPos(expr, position)
        pos == p.pos
        node1 == getSmallestSurroundingNode(Ast(expr), pos)
        node2 == getSmallestSurroundingNode(Ast(expr), pos - 1)
        first == getCompletions(node1, env, env.fetch[1])
    IN IF p.err THEN [err |-> FALSE, list |-> Nil]
       ELSE IF GetQuery(expr, pos).err THEN [err |-> FALSE, list |-> Nil]
       ELSE IF node1 # Nil /\ ~first.err /\ first.list # Nil THEN first
       ELSE IF node2 = Nil THEN [err |-> FALSE, list |-> Nil]
       ELSE getCompletions(node2, env, env.fetch[2])

\* server.Completion on an open document
Completion(expr, position, env) ==
    LET p == ProtocolPositionToTokenPos(expr, position)
        pos == p.pos
        node1 == getSmallestSurroundingNode(Ast(expr), pos - 1)
        node2 == getSmallestSurroundingNode(Ast(expr), pos)
        first == getCompletions(node1, env, env.fetch[1])
    IN IF p.err THEN [err |-> FALSE, list |-> Nil]
       ELSE IF GetQuery(expr, pos - 1).err THEN [err |-> FALSE, list |-> Nil]
       ELSE IF node1 = Nil THEN [err |-> FALSE, list |-> Nil]
       ELSE IF ~first.err /\ first.list # Nil THEN first
       ELSE IF node2 = Nil THEN [err |-> FALSE, list |-> Nil]
       ELSE getCompletions(node2, env, env.fetch[2])

----------------------------------------------------------------------------
(* The stateless adapter: langserverHandler                                *)

MaxRequests == 2

Requests == 1..MaxRequests

NoExpr == "<no expr>"

KnownPaths == {"/diagnostics", "/hover", "/completion"}

NoEnv == [prometheus |-> FALSE, fetch |-> <<TRUE, TRUE>>, allNames |-> <<>>,
          funcOrder |-> <<>>]

NoBody == [json |-> "none", items |-> <<>>]

IdleRequest ==
    [pc |-> "idle",
     params |-> [path |-> "", expr |-> NoExpr, line |-> NoValue, char |-> NoValue],
     env |-> NoEnv, id |-> <<>>, status |-> 0, panicked |-> FALSE,
     body |-> NoBody, calls |-> <<>>]

\* one call into the language server, as the server sees it
Call(op, uri, err) == [op |-> op, uri |-> uri, err |-> err]

\* atomic.LoadInt64 in place of atomic.AddInt64: the counter is read, not advanced
LoadInt64(counter, delta) == counter

\* atomic.AddInt64(&h.requestCounter, delta): the new value
AddInt64(counter, delta) == counter + delta

\* fmt.Sprint(n, ".promql")
requestID(n) == <<n, ".promql">>

\* strconv.ParseFloat on the strings the requests below carry (digits, or no number)
ParseFloat(s) == ParseUint(s)

\* getPositionFromURL where a missing parameter counts as 0
getPositionFromURLLenient(params) ==
    LET line == IF params.line = NoValue THEN [err |-> FALSE, val |-> 0]
                ELSE ParseFloat(params.line)
        char == IF params.char = NoValue THEN [err |-> FALSE, val |-> 0]
                ELSE ParseFloat(params.char)
    IN IF line.err \/ char.err THEN [err |-> TRUE, position |-> [Line |-> 0, Character |-> 0]]
       ELSE [err |-> FALSE, position |-> [Line |-> line.val, Character |-> char.val]]

\* getPositionFromURL
getPositionFromURL(params) ==
    LET line == ParseFloat(params.line)
        char == ParseFloat(params.char)
    IN IF params.line = NoValue \/ line.err \/ params.char = NoValue \/ char.err
       THEN [err |-> TRUE, position |-> [Line |-> 0, Character |-> 0]]
       ELSE [err |-> FALSE, position |-> [Line |-> line.val, Character |-> char.val]]

\* ServeHTTP up to the point where it either answers or has deferred DidClose
ServeHTTPEntry(q, params, id) ==
    IF params.path \notin KnownPaths
    THEN [q EXCEPT !.pc = "done", !.params = params, !.id = id, !.status = 404]
    ELSE IF params.expr = NoExpr
    THEN [q EXCEPT !.pc = "done", !.params = params, !.id = id, !.status = 400]
    ELSE [q EXCEPT !.pc = "open", !.params = params, !.id = id]

\* ServeHTTP that defers DidClose only once DidOpen has succeeded
ServeHTTPOpenThenDefer(q, err) ==
    IF err
    THEN [q EXCEPT !.pc = "done", !.status = 500, !.body = [json |-> "error", items |-> <<>>],
                   !.calls = Append(@, Call("DidOpen", q.id, TRUE))]
    ELSE [q EXCEPT !.pc = "sub", !.calls = Append(@, Call("DidOpen", q.id, FALSE))]

\* ServeHTTP around h.langserver.DidOpen: on failure 500 and return (the deferred
\* DidClose still runs), otherwise on to the sub-handler
ServeHTTPOpen(q, err) ==
    IF err
    THEN [q EXCEPT !.pc = "close", !.status = 500, !.body = [json |-> "error", items |-> <<>>],
                   !.calls = Append(@, Call("DidOpen", q.id, TRUE))]
    ELSE [q EXCEPT !.pc = "sub", !.calls = Append(@, Call("DidOpen", q.id, FALSE))]

\* the handler built by diagnosticsHandler; err: what GetDiagnostics returned
diagnosticsHandlerServe(q, err) ==
    IF err
    THEN [q EXCEPT !.pc = "close", !.status = 500, !.body = [json |-> "error", items |-> <<>>],
                   !.calls = Append(@, Call("GetDiagnostics", q.id, TRUE))]
    ELSE [q EXCEPT !.pc = "close", !.status = 200, !.body = [json |-> "array", items |-> <<>>],
                   !.calls = Append(@, Call("GetDiagnostics", q.id, FALSE))]

\* the handler built by hoverHandler; err: what Hover returned
hoverHandlerServe(q, err) ==
    IF getPositionFromURL(q.params).err
    THEN [q EXCEPT !.pc = "close", !.status = 400, !.body = [json |-> "error", items |-> <<>>]]
    ELSE IF err
    THEN [q EXCEPT !.pc = "close", !.status = 500, !.body = [json |-> "error", items |-> <<>>],
                   !.calls = Append(@, Call("Hover", q.id, TRUE))]
    ELSE [q EXCEPT !.pc = "close", !.status = 200, !.body = [json |-> "object", items |-> <<>>],
                   !.calls = Append(@, Call("Hover", q.id, FALSE))]

\* what completionHandler makes of the answer of Completion: an error is a 500,
\* a nil list makes completion.Items panic, a list is encoded (a nil slice as null)
completionResponse(q, c) ==
    IF c.err
    THEN [q EXCEPT !.pc = "close", !.status = 500, !.body = [json |-> "error", items |-> <<>>],
                   !.calls = Append(@, Call("Completion", q.id, TRUE))]
    ELSE IF c.list = Nil
    THEN [q EXCEPT !.pc = "close", !.panicked = TRUE,
                   !.calls = Append(@, Call("Completion", q.id, FALSE))]
    ELSE [q EXCEPT !.pc = "close", !.status = 200,
                   !.body = [json |-> IF c.list.Items = <<>> THEN "null" ELSE "array",
                             items |-> c.list.Items],
                   !.calls = Append(@, Call("Completion", q.id, FALSE))]

\* the handler built by completionHandler; found: s.cache.GetDocument knows the URI
completionHandlerServe(q, env, found) ==
    LET p == getPositionFromURL(q.params)
    IN IF p.err
       THEN [q EXCEPT !.pc = "close", !.status = 400,
                      !.body = [json |-> "error", items |-> <<>>]]
       ELSE completionResponse([q EXCEPT !.env = env],
                               IF found THEN Completion(q.params.expr, p.position, env)
                               ELSE [err |-> TRUE, list |-> Nil])

HTTPInit ==
    /\ requestCounter = 0
    /\ req = [r \in Requests |-> IdleRequest]
    /\ openDocs = {}

\* ServeHTTP is entered: the request gets its identifier and is routed
ServeHTTP(r, P) ==
    /\ req[r].pc = "idle"
    /\ \A o \in Requests : o < r => req[o].pc # "idle"
    /\ \E params \in P :
          /\ requestCounter' = AddInt64(requestCounter, 1)
          /\ req' = [req EXCEPT ![r] = ServeHTTPEntry(@, params,
                                           requestID(AddInt64(requestCounter, 1)))]
    /\ UNCHANGED <<openDocs, configVars>>

\* h.langserver.DidOpen: fails for a URI that is already open, or on its own
DidOpen(r) ==
    /\ req[r].pc = "open"
    /\ \E failed \in BOOLEAN :
          LET err == failed \/ req[r].id \in openDocs
          IN /\ req' = [req EXCEPT ![r] = ServeHTTPOpen(@, err)]
             /\ openDocs' = IF err THEN openDocs ELSE openDocs \cup {req[r].id}
    /\ UNCHANGED <<requestCounter, configVars>>

diagnosticsHandler(r) ==
    /\ req[r].pc = "sub"
    /\ req[r].params.path = "/diagnostics"
    /\ \E failed \in BOOLEAN :
          req' = [req EXCEPT ![r] =
                     diagnosticsHandlerServe(@, failed \/ req[r].id \notin openDocs)]
    /\ UNCHANGED <<requestCounter, openDocs, configVars>>

hoverHandler(r) ==
    /\ req[r].pc = "sub"
    /\ req[r].params.path = "/hover"
    /\ \E failed \in BOOLEAN :
          req' = [req EXCEPT ![r] =
                     hoverHandlerServe(@, failed \/ req[r].id \notin openDocs)]
    /\ UNCHANGED <<requestCounter, openDocs, configVars>>

completionHandler(r, E) ==
    /\ req[r].pc = "sub"
    /\ req[r].params.path = "/completion"
    /\ \E env \in E :
          req' = [req EXCEPT ![r] =
                     completionHandlerServe(@, env, req[r].id \in openDocs)]
    /\ UNCHANGED <<requestCounter, openDocs, configVars>>

\* the deferred h.langserver.DidClose, then ServeHTTP returns
DidClose(r) ==
    /\ req[r].pc = "close"
    /\ req' = [req EXCEPT ![r].pc = "done",
                          ![r].calls = Append(@, Call("DidClose", req[r].id, FALSE))]
    /\ openDocs' = openDocs \ {req[r].id}
    /\ UNCHANGED <<requestCounter, configVars>>

----------------------------------------------------------------------------
(* Inputs of the adapter and of completion                                 *)

\* the sequences over S that name each of their elements once
OrdersOf(S) ==
    {f \in [1..Cardinality(S) -> S] : \A i, j \in 1..Cardinality(S) : f[i] = f[j] => i = j}

\* every possible answer of LabelValues when it succeeds
NameLists == UNION {OrdersOf(S) : S \in SUBSET MetricNames}

\* a server without a Prometheus client, or one whose two lookups each
\* succeed or fail, whose metric names and whose map iteration order vary
CompletionEnvs ==
    {NoEnv} \cup
    [prometheus : {TRUE}, fetch : [1..2 -> BOOLEAN], allNames : NameLists,
     funcOrder : OrdersOf(Functions)]

LineStrings == {NoValue, <<"0">>, <<"1">>}

CharStrings == {NoValue} \cup {<<DigitChars[i]>> : i \in 1..7}

CompletionParams ==
    [path : {"/completion"}, expr : Exprs, line : LineStrings, char : CharStrings]

AdapterEnvs ==
    {NoEnv,
     [prometheus |-> TRUE, fetch |-> <<TRUE, TRUE>>, allNames |-> <<Str_up>>,
      funcOrder |-> <<Str_abs, Str_rate, Str_round>>],
     [prometheus |-> TRUE, fetch |-> <<FALSE, FALSE>>, allNames |-> <<>>,
      funcOrder |-> <<Str_abs, Str_rate, Str_round>>]}

AdapterParams ==
    [path : {"/metrics"}, expr : {"up"}, line : {NoValue}, char : {NoValue}]
    \cup [path : KnownPaths, expr : {NoExpr}, line : {<<"0">>}, char : {<<"1">>}]
    \cup [path : {"/diagnostics"}, expr : {"up"}, line : {NoValue}, char : {NoValue}]
    \cup [path : {"/hover", "/completion"}, expr : {"up"},
          line : {NoValue, <<"0">>}, char : {NoValue, <<"1">>, <<"x">>}]

----------------------------------------------------------------------------
(* Specifications                                                          *)

Init == ConfigInit /\ HTTPInit

\* the configuration is read once, then reconfigured at run time
NextConfig ==
    \/ readConfigFromYAML
    \/ readConfigFromENV
    \/ NotifyConfiguration

SpecConfig == Init /\ [][NextConfig]_vars

\* concurrent ServeHTTP calls on one handler
NextHTTP ==
    \E r \in Requests :
        \/ ServeHTTP(r, AdapterParams)
        \/ DidOpen(r)
        \/ diagnosticsHandler(r)
        \/ hoverHandler(r)
        \/ completionHandler(r, AdapterEnvs)
        \/ DidClose(r)

SpecHTTP == Init /\ [][NextHTTP]_vars

\* one /completion request against every document, cursor and server state
NextCompletion ==
    \/ ServeHTTP(1, CompletionParams)
    \/ DidOpen(1)
    \/ completionHandler(1, CompletionEnvs)
    \/ DidClose(1)

SpecCompletion == Init /\ [][NextCompletion]_vars

----------------------------------------------------------------------------
(* Configuration claims, checked under SpecConfig                          *)

\* the interval the configuration source carries: 0 when it names none
ConfiguredInterval ==
    IF loadInput.interval \in {NoValue, <<>>} THEN 0
    ELSE ParseDuration(loadInput.interval).val

JustLoaded == phase = "loaded" /\ ~lastNote.seen

\* C6: after a successful load (YAML or environment) the lookback interval is
\* positive: the configured value when that is greater than zero, and exactly
\* 12 hours when the configured value is absent, zero or negative.
C6_LoadedIntervalPositive ==
    JustLoaded =>
        /\ config.MetadataLookbackInterval > 0
        /\ ConfiguredInterval > 0 => config.MetadataLookbackInterval = ConfiguredInterval
        /\ ConfiguredInterval <= 0 => config.MetadataLookbackInterval = 43200000

\* a configuration whose interval is "0s" was loaded from the environment
C6_Witness ==
    /\ JustLoaded
    /\ loadInput = [source |-> "env", interval |-> <<"0", "s">>]
    /\ config.MetadataLookbackInterval = 43200000

NoteURLFailed ==
    /\ lastNote.params.settings.url # NoValue
    /\ ~UrlParses(lastNote.params.settings.url) \/ lastNote.failed

NoteInterval == lastNote.params.settings.metadataLookbackInterval

\* C9: a failed change of the metadata source is reported and never fatal: a
\* 'url' that does not parse keeps ChangeDataSource from being called, a failing
\* ChangeDataSource is shown to the client, and in both cases the notification
\* returns no error and its 'metadataLookbackInterval' is still applied.
C9_SourceChangeFailureNotFatal ==
    (lastNote.seen /\ lastNote.params.kind = "ok") =>
        /\ (lastNote.params.settings.url # NoValue
              /\ ~UrlParses(lastNote.params.settings.url)) => lastNote.cds = <<>>
        /\ (lastNote.cds # <<>> /\ lastNote.failed) => lastNote.shown = <<"Error">>
        /\ NoteURLFailed =>
              /\ lastNote.ret = "nil"
              /\ (NoteInterval # NoValue /\ ~ParseDuration(NoteInterval).err) =>
                    config.MetadataLookbackInterval = ParseDuration(NoteInterval).val

\* ChangeDataSource failed for a well-formed URL and the interval of the same
\* notification, 30m, is in force
C9_Witness ==
    /\ lastNote.seen
    /\ lastNote.params.kind = "ok"
    /\ lastNote.params.settings.url = PromB
    /\ lastNote.failed
    /\ lastNote.cds = <<PromB>>
    /\ lastNote.shown = <<"Error">>
    /\ NoteInterval = <<"3", "0", "m">>
    /\ config.MetadataLookbackInterval = 1800000

\* C10: whatever notifications follow a successful load, the lookback interval
\* stays greater than zero, and a 'metadataLookbackInterval' setting that does
\* not parse leaves the interval as it was.
C10_IntervalStaysPositive ==
    [][ phase' = "loaded" =>
          /\ config'.MetadataLookbackInterval > 0
          /\ ( /\ phase = "loaded"
               /\ lastNote'.seen
               /\ lastNote'.params.kind = "ok"
               /\ lastNote'.params.settings.metadataLookbackInterval # NoValue
               /\ ParseDuration(lastNote'.params.settings.metadataLookbackInterval).err )
             => config'.MetadataLookbackInterval = config.MetadataLookbackInterval ]_vars

----------------------------------------------------------------------------
(* Adapter claims, checked under SpecHTTP                                  *)

\* the request reached the point where ServeHTTP opens an ephemeral document
OpensDocument(q) ==
    q.pc # "idle" /\ q.params.path \in KnownPaths /\ q.params.expr # NoExpr

CallsOf(q, op) == {i \in 1..Len(q.calls) : q.calls[i].op = op}

OpenSucceeded(q) == \E i \in CallsOf(q, "DidOpen") : ~q.calls[i].err

MissingPosition(q) == q.params.line = NoValue \/ q.params.char = NoValue

\* C1: every request that opens an ephemeral document discards it: DidClose is
\* invoked exactly once, with the URI given to DidOpen, after the sub-handler
\* and before ServeHTTP returns, on every path; once all requests have
\* completed no ephemeral document is open.
C1_EphemeralDocumentDiscarded ==
    /\ \A r \in Requests :
          OpensDocument(req[r]) =>
              LET c == req[r].calls
              IN /\ req[r].pc = "done" =>
                       /\ Len(c) >= 2
                       /\ c[1].op = "DidOpen"
                       /\ c[Len(c)].op = "DidClose"
                       /\ c[Len(c)].uri = c[1].uri
                       /\ Cardinality(CallsOf(req[r], "DidClose")) = 1
                       /\ req[r].status # 0 \/ req[r].panicked
                 /\ req[r].pc # "done" => CallsOf(req[r], "DidClose") = {}
    /\ (\A r \in Requests : req[r].pc = "done") => openDocs = {}

\* both requests are over: one whose DidOpen failed (500), one answered with 200,
\* each closed once
C1_Witness ==
    /\ \A r \in Requests : req[r].pc = "done"
    /\ \E r \in Requests :
          /\ req[r].status = 500
          /\ Len(req[r].calls) = 2
          /\ req[r].calls[1].err
          /\ req[r].calls[2].op = "DidClose"
    /\ \E r \in Requests :
          /\ req[r].status = 200
          /\ Len(req[r].calls) = 3
          /\ req[r].calls[3] = Call("DidClose", req[r].id, FALSE)
    /\ openDocs = {}

\* C2: concurrent ServeHTTP calls on one handler get pairwise different
\* document identifiers, so the document a request opened stays open until that
\* request's own DidClose.
C2_RequestIDsUnique ==
    /\ \A r1, r2 \in Requests :
          (r1 # r2 /\ req[r1].pc # "idle" /\ req[r2].pc # "idle") => req[r1].id # req[r2].id
    /\ \A r \in Requests : req[r].pc = "sub" => req[r].id \in openDocs

\* two requests are in their sub-handlers at once, each with its own document
C2_Witness ==
    /\ req[1].pc = "sub"
    /\ req[2].pc = "sub"
    /\ Cardinality(openDocs) = 2

\* C3 as stated: without expr the answer is 400 and neither DidOpen nor DidClose
\* is called; /hover and /completion with expr but without line or char answer
\* 400 and never call Hover or Completion; /diagnostics never requires line or
\* char.
C3_MissingParameterIs400 ==
    \A r \in Requests :
        (req[r].pc = "done" /\ req[r].params.path \in KnownPaths) =>
            /\ req[r].params.expr = NoExpr =>
                  req[r].status = 400 /\ req[r].calls = <<>>
            /\ ( /\ req[r].params.path \in {"/hover", "/completion"}
                 /\ req[r].params.expr # NoExpr
                 /\ MissingPosition(req[r]) ) =>
                  /\ req[r].status = 400
                  /\ CallsOf(req[r], "Hover") \cup CallsOf(req[r], "Completion") = {}
            /\ (req[r].params.path = "/diagnostics" /\ req[r].params.expr # NoExpr) =>
                  req[r].status # 400

\* C3 amended: the 400 for a missing line or char is given once DidOpen has
\* succeeded; when DidOpen fails the answer is 500, whatever else is missing.
C3_MissingParameterIs400AfterOpen ==
    \A r \in Requests :
        (req[r].pc = "done" /\ req[r].params.path \in KnownPaths) =>
            /\ req[r].params.expr = NoExpr =>
                  req[r].status = 400 /\ req[r].calls = <<>>
            /\ ( /\ req[r].params.path \in {"/hover", "/completion"}
                 /\ req[r].params.expr # NoExpr
                 /\ MissingPosition(req[r]) ) =>
                  /\ OpenSucceeded(req[r]) => req[r].status = 400
                  /\ ~OpenSucceeded(req[r]) => req[r].status = 500
                  /\ CallsOf(req[r], "Hover") \cup CallsOf(req[r], "Completion") = {}
            /\ (req[r].params.path = "/diagnostics" /\ req[r].params.expr # NoExpr) =>
                  req[r].status # 400

\* /hover with expr and char but no line: opened, answered 400, closed, and
\* Hover never called
C3_Witness ==
    \E r \in Requests :
        /\ req[r].pc = "done"
        /\ req[r].params.path = "/hover"
        /\ req[r].params.expr = "up"
        /\ req[r].params.line = NoValue
        /\ req[r].params.char = <<"1">>
        /\ req[r].status = 400
        /\ req[r].calls = <<Call("DidOpen", req[r].id, FALSE),
                            Call("DidClose", req[r].id, FALSE)>>

----------------------------------------------------------------------------
(* Completion claims, checked under SpecCompletion (request 1)             *)

\* the editor's presentation: a stable sort by SortText
RECURSIVE InsertBySortText(_, _)
InsertBySortText(item, sorted) ==
    IF sorted = <<>> THEN <<item>>
    ELSE IF LexLess(item.SortText, Head(sorted).SortText) THEN <<item>> \o sorted
    ELSE <<Head(sorted)>> \o InsertBySortText(item, Tail(sorted))

RECURSIVE SortBySortText(_)
SortBySortText(items) ==
    IF items = <<>> THEN <<>>
    ELSE InsertBySortText(items[Len(items)], SortBySortText(SubSeq(items, 1, Len(items) - 1)))

\* Completion was called for request 1 and has answered
CompletionAnswered ==
    /\ req[1].pc \in {"close", "done"}
    /\ CallsOf(req[1], "Completion") # {}

CursorPosition == getPositionFromURL(req[1].params).position

CursorInText == ~ProtocolPositionToTokenPos(req[1].params.expr, CursorPosition).err

Cursor == ProtocolPositionToTokenPos(req[1].params.expr, CursorPosition).pos

NodeAtCursor == getSmallestSurroundingNode(Ast(req[1].params.expr), Cursor)

NodeBeforeCursor == getSmallestSurroundingNode(Ast(req[1].params.expr), Cursor - 1)

IsSelector(n) == n # Nil /\ n.kind \in {"VectorSelector", "MatrixSelector"}

\* the answer of the adapter is the one completionHandler gives for result c
AnswerIs(c) ==
    LET a == completionResponse(IdleRequest, c)
    IN /\ req[1].status = a.status
       /\ req[1].panicked = a.panicked
       /\ req[1].body = a.body

\* C4: a completion request whose cursor lies in an unrecognized context (no
\* selector around it, or no node at all) yields an empty list and no error:
\* the /completion endpoint answers 200 with an empty list.
C4_UnrecognizedContextEmptyList ==
    ( /\ CompletionAnswered
      /\ CursorInText
      /\ ~IsSelector(NodeAtCursor)
      /\ ~IsSelector(NodeBeforeCursor) ) =>
        /\ ~req[1].panicked
        /\ req[1].status = 200
        /\ req[1].body = [json |-> "array", items |-> <<>>]

\* C5: when the label-values call for __name__ fails during a completion lookup
\* the failure is absorbed: Completion returns an empty list without an error
\* and /completion does not answer 500.
C5_UnreachableSourceAbsorbed ==
    ( /\ CompletionAnswered
      /\ CursorInText
      /\ IsSelector(NodeBeforeCursor)
      /\ IsSelector(NodeAtCursor)
      /\ req[1].env.prometheus
      /\ req[1].env.fetch = <<FALSE, FALSE>> ) =>
        /\ ~Completion(req[1].params.expr, CursorPosition, req[1].env).err
        /\ req[1].status # 500
        /\ req[1].body.items = <<>>

\* the members of a sequence
Range(seq) == {seq[i] : i \in 1..Len(seq)}

\* C7: the presentation order of the candidates (the order their SortText
\* induces) does not depend on the iteration order of the function table, nor
\* on the order the metric names arrive in; every function candidate comes
\* before every metric-name candidate and each group is in alphabetical
\* (byte-wise) order of its names.
C7_DeterministicOrder ==
    (CompletionAnswered /\ req[1].status = 200) =>
        LET shown == SortBySortText(req[1].body.items)
        IN /\ \A i, j \in 1..Len(shown) :
                 i < j =>
                    /\ ~(shown[i].Kind = 12 /\ shown[j].Kind = 3)
                    /\ shown[i].Kind = shown[j].Kind => LexLess(shown[i].Label, shown[j].Label)
           /\ \A order \in OrdersOf(Functions), names \in OrdersOf(Range(req[1].env.allNames)) :
                 LET other == Completion(req[1].params.expr, CursorPosition,
                                         [req[1].env EXCEPT !.funcOrder = order,
                                                            !.allNames = names])
                 IN /\ ~other.err
                    /\ other.list # Nil
                    /\ SortBySortText(other.list.Items) = shown

\* candidates for "r" in r[5m]: two functions and a metric name, collected in an
\* order that is not the presentation order
C7_Witness ==
    /\ CompletionAnswered
    /\ req[1].status = 200
    /\ req[1].params.expr = "r[5m]"
    /\ Len(req[1].body.items) = 3
    /\ req[1].body.items[1].Label = Str_round
    /\ req[1].body.items[3].Label = Str_r2
    /\ SortBySortText(req[1].body.items) # req[1].body.items

\* C8 as stated: the node at the cursor is looked up first and the node at
\* cursor - 1 only when no node contains the cursor, so the answer is the one
\* computed for the node at the cursor whenever there is such a node (stated for
\* the runs in which every label-values call succeeds and a list is delivered).
C8_CursorNodeFirst ==
    ( /\ CompletionAnswered
      /\ CursorInText
      /\ req[1].env.fetch = <<TRUE, TRUE>>
      /\ req[1].status = 200 ) =>
        /\ NodeAtCursor # Nil =>
              AnswerIs(getCompletions(NodeAtCursor, req[1].env, TRUE))
        /\ (NodeAtCursor = Nil /\ NodeBeforeCursor # Nil) =>
              AnswerIs(getCompletions(NodeBeforeCursor, req[1].env, TRUE))

\* C8 amended: the node at cursor - 1 is looked up first and its candidates
\* are the answer whenever that lookup yields a list; only when it yields none
\* (or fails) is the node at the cursor looked up; with no node at cursor - 1
\* nothing is returned.
C8_PreviousNodeFirst ==
    (CompletionAnswered /\ CursorInText) =>
        LET first == getCompletions(NodeBeforeCursor, req[1].env, req[1].env.fetch[1])
        IN /\ NodeBeforeCursor = Nil => req[1].status # 200
           /\ (NodeBeforeCursor # Nil /\ ~first.err /\ first.list # Nil) =>
                 /\ req[1].status = 200
                 /\ req[1].body.items = first.list.Items
           /\ (NodeBeforeCursor # Nil /\ (first.err \/ first.list = Nil)) =>
                 IF NodeAtCursor = Nil THEN req[1].status # 200
                 ELSE AnswerIs(getCompletions(NodeAtCursor, req[1].env, req[1].env.fetch[2]))

\* a+r with the cursor behind "a": the binary expression contains the cursor,
\* and the candidates returned are those of the selector "a" before it
C8_Witness ==
    /\ CompletionAnswered
    /\ req[1].params.expr = "a+r"
    /\ Cursor = 1
    /\ CursorInText
    /\ NodeAtCursor.kind = "BinaryExpr"
    /\ NodeBeforeCursor.name = Str_a
    /\ req[1].status = 200
    /\ Len(req[1].body.items) > 0
    /\ req[1].body.items[1].Range = [Start |-> [Line |-> 0, Character |-> 0],
                                     End |-> [Line |-> 0, Character |-> 1]]

====
